---- MODULE Spec2Model ----
(***************************************************************************)
(* Model of app.py, the Streamlit page "Women's Safety Risk Prediction".   *)
(*                                                                         *)
(* Streamlit executes the script top to bottom once for the page load and  *)
(* once more for every widget change and button click of the session.      *)
(* One action of this module is one such execution, from line 1 to the     *)
(* line where it ends or raises.  Module-level names of the script (model, *)
(* features) live for one execution; widget values live in the session.    *)
(*                                                                         *)
(* Latitude and longitude are floats in the program; the model carries     *)
(* them in whole degrees.  The column label "Crowd Density (people/m²)"    *)
(* is written "Crowd Density (people/m2)".                                 *)
(***************************************************************************)
EXTENDS Integers, Sequences, FiniteSets

VARIABLES
    artifactFile,   \* content of decision_tree_model.pkl on disk
    session,        \* current value of every sidebar widget
    rejected,       \* the entry a widget refused most recently, if any
    runs,           \* script executions since the process started
    loads,          \* successful pickle.load calls since the process started
    trigger,        \* what caused the most recent execution
    model,          \* global `model` of the most recent execution
    features,       \* global `features` of the most recent execution
    batch,          \* argument of model.predict in the most recent execution
    predictCalls,   \* model.predict calls made by the most recent execution
    page            \* elements the most recent execution rendered

vars == <<artifactFile, session, rejected, runs, loads, trigger, model,
          features, batch, predictCalls, page>>

----------------------------------------------------------------------------
(* Bounds of the model *)

MaxRuns == 4        \* script executions explored per process

MaxExtra == 1       \* values above the minimum tried in a widget without max_value

----------------------------------------------------------------------------
(* The artifact and the inference library *)

NoModel == "none"

\* What the file at the fixed path may hold: nothing, bytes pickle cannot
\* read, or a classifier.  The classifiers stand for the opaque artifact: one
\* that answers "High Risk" for every row, one that decides on the row, and
\* one fitted on a different number of columns.
ArtifactFiles == {"missing", "corrupt", "stub_high_risk", "tree", "mismatch"}

\* open(..., 'rb') raises when the file is absent; pickle.load raises when
\* the bytes are not a pickle.  Otherwise the handle is the classifier.
\* Variant: a missing or unreadable file yields a default classifier.
LoadModelFallback(file) ==
    IF file \in {"missing", "corrupt"}
    THEN [ok |-> TRUE, handle |-> "stub_high_risk"]
    ELSE [ok |-> TRUE, handle |-> file]

LoadModel(file) ==
    IF file \in {"missing", "corrupt"}
    THEN [ok |-> FALSE, handle |-> NoModel]
    ELSE [ok |-> TRUE, handle |-> file]

\* Number of columns the classifier was fitted on.
NFeaturesIn(handle) == IF handle = "mismatch" THEN 10 ELSE 11

\* The label the classifier gives one row.
Classify(handle, row) ==
    IF handle = "stub_high_risk" THEN "High Risk"
    ELSE IF row[11] = 1 \/ row[8] >= 12 \/ row[7] > 0
         THEN "High Risk" ELSE "Low Risk"

\* model.predict(X): one label per row of X; raises when a row has not the
\* number of columns the classifier was fitted on.
Predict(handle, X) ==
    IF X = <<>> \/ \E i \in 1..Len(X) : Len(X[i]) # NFeaturesIn(handle)
    THEN [ok |-> FALSE, value |-> <<>>]
    ELSE [ok |-> TRUE, value |-> [i \in 1..Len(X) |-> Classify(handle, X[i])]]

----------------------------------------------------------------------------
(* The sidebar widgets *)

Fields == {"tower_id", "latitude", "longitude", "signal_strength",
           "male_count", "female_count", "crowd_density", "hour",
           "day_of_week", "month", "is_weekend"}

RadioOptions == <<"Yes", "No">>

\* min_value of each number_input, first bound of each slider.
MinValue == [tower_id |-> 1, latitude |-> -90, longitude |-> -180,
             signal_strength |-> -120, male_count |-> 0, female_count |-> 0,
             crowd_density |-> 0, hour |-> 0, day_of_week |-> 0, month |-> 1]

\* max_value of each number_input that has one, second bound of each slider.
MaxValue == [latitude |-> 90, longitude |-> 180, signal_strength |-> 0,
             hour |-> 23, day_of_week |-> 6, month |-> 12]

\* The label each widget is created with.
WidgetLabel == [tower_id |-> "Tower ID", latitude |-> "Latitude",
                longitude |-> "Longitude",
                signal_strength |-> "Signal Strength (dBm)",
                male_count |-> "Male Count", female_count |-> "Female Count",
                crowd_density |-> "Crowd Density (people/m2)",
                hour |-> "Hour", day_of_week |-> "Day of Week",
                month |-> "Month", is_weekend |-> "Is Weekend?"]

\* A widget commits an entry only when it lies within its bounds, both
\* inclusive; a radio only offers its options.
\* Variant: the bounds are exclusive.
AcceptsExclusive(f, v) ==
    IF f = "is_weekend"
    THEN \E i \in 1..Len(RadioOptions) : RadioOptions[i] = v
    ELSE /\ v > MinValue[f]
         /\ f \in DOMAIN MaxValue => v < MaxValue[f]

Accepts(f, v) ==
    IF f = "is_weekend"
    THEN \E i \in 1..Len(RadioOptions) : RadioOptions[i] = v
    ELSE /\ v >= MinValue[f]
         /\ f \in DOMAIN MaxValue => v <= MaxValue[f]

\* A widget created without an explicit value starts at its minimum; a
\* radio starts at its first option.
Defaults ==
    [f \in Fields |-> IF f = "is_weekend" THEN RadioOptions[1] ELSE MinValue[f]]

\* Entries a user tries in a widget: the bounds and their outer neighbours.
Entries(f) ==
    IF f = "is_weekend" THEN {RadioOptions[i] : i \in 1..Len(RadioOptions)}
    ELSE IF f \in DOMAIN MaxValue
         THEN {MinValue[f] - 1, MinValue[f], MaxValue[f], MaxValue[f] + 1}
         ELSE (MinValue[f] - 1)..(MinValue[f] + MaxExtra)

NoRejection == [field |-> "none", value |-> 0]

----------------------------------------------------------------------------
(* The script *)

\* is_weekend = 1 if is_weekend == "Yes" else 0
\* Variant: the two flag values exchanged.
WeekendFlagInverted(choice) == IF choice = "Yes" THEN 0 ELSE 1

WeekendFlag(choice) == IF choice = "Yes" THEN 1 ELSE 0

\* features = [tower_id, latitude, longitude, signal_strength, male_count,
\*             female_count, crowd_density, hour, day_of_week, month, is_weekend]
\* Variant: latitude and longitude exchanged.
FeaturesSwapped(s) ==
    <<s.tower_id, s.longitude, s.latitude, s.signal_strength, s.male_count,
      s.female_count, s.crowd_density, s.hour, s.day_of_week, s.month,
      WeekendFlag(s.is_weekend)>>

Features(s) ==
    <<s.tower_id, s.latitude, s.longitude, s.signal_strength, s.male_count,
      s.female_count, s.crowd_density, s.hour, s.day_of_week, s.month,
      WeekendFlag(s.is_weekend)>>

\* make_prediction(features): model.predict([features]).  X is the argument
\* the library received, result what it returned or that it raised.
\* Variant: model.predict(features), the list not wrapped; predict raises
\* on a one-dimensional argument.
make_prediction_unwrapped(handle, feats) ==
    [X |-> feats, result |-> [ok |-> FALSE, value |-> <<>>]]

make_prediction(handle, feats) ==
    [X |-> <<feats>>, result |-> Predict(handle, <<feats>>)]

\* st.sidebar.button is True only in the execution its click caused.
\* Variant: the body runs in every execution.
ButtonAlwaysTrue(trig) == TRUE

ButtonValue(trig) == trig = "press"

\* f"Prediction: {prediction[0]}"
\* Variant: the label is not read from the prediction.
SuccessMessageFixed(prediction) == <<"Prediction: ", "High Risk">>

SuccessMessage(prediction) == <<"Prediction: ", prediction[1]>>

NoMessage == <<>>

\* pd.DataFrame([features], columns=[...])
ColumnNames ==
    <<"Tower ID", "Latitude", "Longitude", "Signal Strength (dBm)",
      "Male Count", "Female Count", "Crowd Density (people/m2)",
      "Hour", "Day of Week", "Month", "Is Weekend?">>

\* Variant: the Hour column left out of the table.
InputDataNoHour(feats) ==
    [columns |-> [i \in 1..10 |-> ColumnNames[IF i < 8 THEN i ELSE i + 1]],
     rows |-> <<[i \in 1..10 |-> feats[IF i < 8 THEN i ELSE i + 1]]>>]

InputData(feats) == [columns |-> ColumnNames, rows |-> <<feats>>]

NoTable == [columns |-> <<>>, rows |-> <<>>]

\* The body of `if st.sidebar.button("Make Prediction"):`.  An exception of
\* make_prediction is not caught: the execution ends at that line.
\* Variant: a failed call is swallowed and a label made up.
OnClickRecovering(handle, feats) ==
    LET p == make_prediction(handle, feats)
        label == IF p.result.ok THEN p.result.value ELSE <<"Low Risk">>
    IN [batch |-> p.X, predictCalls |-> 1, raised |-> FALSE,
        success |-> SuccessMessage(label), table |-> InputData(feats),
        explanation |-> TRUE]

OnClick(handle, feats) ==
    LET p == make_prediction(handle, feats)
    IN IF ~p.result.ok
       THEN [batch |-> p.X, predictCalls |-> 1, raised |-> TRUE,
             success |-> NoMessage, table |-> NoTable, explanation |-> FALSE]
       ELSE [batch |-> p.X, predictCalls |-> 1, raised |-> FALSE,
             success |-> SuccessMessage(p.result.value),
             table |-> InputData(feats), explanation |-> TRUE]

\* The button was not clicked: the body is skipped.
NoClick ==
    [batch |-> <<>>, predictCalls |-> 0, raised |-> FALSE,
     success |-> NoMessage, table |-> NoTable, explanation |-> FALSE]

BlankPage ==
    [form |-> FALSE, success |-> NoMessage, table |-> NoTable,
     explanation |-> FALSE, overview |-> FALSE, exception |-> "none"]

\* One execution of app.py with the widgets at `s`, caused by `trig`.
Script(file, s, trig) ==
    LET ld == LoadModel(file)
    IN IF ~ld.ok
       THEN [loaded |-> FALSE, model |-> NoModel, features |-> <<>>,
             batch |-> <<>>, predictCalls |-> 0,
             page |-> [BlankPage EXCEPT !.exception = "load"]]
       ELSE LET feats == Features(s)
                click == IF ButtonValue(trig) THEN OnClick(ld.handle, feats)
                                              ELSE NoClick
            IN [loaded |-> TRUE, model |-> ld.handle, features |-> feats,
                batch |-> click.batch, predictCalls |-> click.predictCalls,
                page |-> [form |-> TRUE, success |-> click.success,
                          table |-> click.table,
                          explanation |-> click.explanation,
                          overview |-> ~click.raised,
                          exception |-> IF click.raised THEN "predict"
                                                        ELSE "none"]]

----------------------------------------------------------------------------
(* The state machine *)

Init ==
    /\ artifactFile \in ArtifactFiles
    /\ session = Defaults
    /\ rejected = NoRejection
    /\ runs = 0
    /\ loads = 0
    /\ trigger = "none"
    /\ model = NoModel
    /\ features = <<>>
    /\ batch = <<>>
    /\ predictCalls = 0
    /\ page = BlankPage

Run(s, trig) ==
    LET r == Script(artifactFile, s, trig)
    IN /\ runs < MaxRuns
       /\ runs' = runs + 1
       /\ loads' = loads + (IF r.loaded THEN 1 ELSE 0)
       /\ trigger' = trig
       /\ session' = s
       /\ rejected' = NoRejection
       /\ model' = r.model
       /\ features' = r.features
       /\ batch' = r.batch
       /\ predictCalls' = r.predictCalls
       /\ page' = r.page
       /\ UNCHANGED artifactFile

\* The browser opens or refreshes the page: a new session, widgets at their
\* defaults.
PageLoad == Run(Defaults, "load")

\* The user commits a new value in a rendered widget; the script reruns.
Edit ==
    \E f \in Fields : \E v \in Entries(f) :
        /\ page.form
        /\ Accepts(f, v)
        /\ v # session[f]
        /\ Run([session EXCEPT ![f] = v], "edit")

\* The user tries a value the widget refuses: nothing is committed and the
\* script does not rerun.
Reject ==
    \E f \in Fields : \E v \in Entries(f) :
        /\ page.form
        /\ ~Accepts(f, v)
        /\ rejected' = [field |-> f, value |-> v]
        /\ UNCHANGED <<artifactFile, session, runs, loads, trigger, model,
                       features, batch, predictCalls, page>>

\* The user clicks "Make Prediction"; the script reruns with the button True.
Press ==
    /\ page.form
    /\ Run(session, "press")

Next == PageLoad \/ Edit \/ Reject \/ Press

Spec == Init /\ [][Next]_vars

----------------------------------------------------------------------------
(* Properties *)

\* The order of the fields as the specification lists it.
SpecOrder ==
    <<"tower_id", "latitude", "longitude", "signal_strength", "male_count",
      "female_count", "crowd_density", "hour", "day_of_week", "month",
      "is_weekend">>

\* The current value of a named control, the radio read as its 0/1 flag.
ControlValue(f) ==
    IF f = "is_weekend"
    THEN (IF session.is_weekend = "Yes" THEN 1 ELSE 0)
    ELSE session[f]

CurrentVector == [i \in 1..11 |-> ControlValue(SpecOrder[i])]

\* The domain the specification declares for a field (none for tower_id).
InDeclaredDomain(f, v) ==
    CASE f = "latitude" -> v >= -90 /\ v <= 90
      [] f = "longitude" -> v >= -180 /\ v <= 180
      [] f = "signal_strength" -> v >= -120 /\ v <= 0
      [] f \in {"male_count", "female_count", "crowd_density"} -> v >= 0
      [] f = "hour" -> v \in 0..23
      [] f = "day_of_week" -> v \in 0..6
      [] f = "month" -> v \in 1..12
      [] OTHER -> TRUE

DeclaredNumeric == Fields \ {"tower_id", "is_weekend"}

\* C1: whenever the script has assembled the feature vector, and whenever a
\* row was passed to the model, position i holds the current value of the
\* i-th control of the specified order: eleven fields, none swapped, dropped
\* or duplicated.
C1_FieldOrder ==
    /\ features # <<>> =>
          /\ Len(features) = 11
          /\ \A i \in 1..11 : features[i] = ControlValue(SpecOrder[i])
    /\ predictCalls > 0 =>
          /\ Len(batch) >= 1
          /\ Len(batch[1]) = 11
          /\ \A i \in 1..11 : batch[1][i] = ControlValue(SpecOrder[i])

C1_Witness ==
    /\ trigger = "press"
    /\ predictCalls = 1
    /\ session.longitude = 180
    /\ session.is_weekend = "No"

\* C2: a triggered prediction passes the model one row of eleven values, and
\* with a classifier fitted on eleven columns the call does not raise and
\* exactly one label, element 0 of what predict returned, is shown.
C2_OneRowOneLabel ==
    trigger = "press" =>
        /\ predictCalls = 1
        /\ Len(batch) = 1
        /\ Len(batch[1]) = 11
        /\ NFeaturesIn(model) = 11 =>
              /\ page.exception = "none"
              /\ Len(page.success) = 2
              /\ page.success[1] = "Prediction: "
              /\ page.success[2] = Classify(model, batch[1])

C2_Witness ==
    /\ trigger = "press"
    /\ model = "tree"
    /\ session.signal_strength = 0
    /\ page.success = <<"Prediction: ", "High Risk">>

\* C3: the last element of the vector is 1 when the radio is at "Yes" and 0
\* when it is at "No", and is never anything but 0 or 1.
C3_WeekendFlag ==
    /\ session.is_weekend \in {"Yes", "No"}
    /\ features # <<>> =>
          /\ features[Len(features)] \in {0, 1}
          /\ session.is_weekend = "Yes" => features[Len(features)] = 1
          /\ session.is_weekend = "No" => features[Len(features)] = 0

C3_Witness ==
    /\ features # <<>>
    /\ session.is_weekend = "No"
    /\ features[Len(features)] = 0

\* C4: with the classifier that answers "High Risk" for every row, a press
\* shows exactly "Prediction: High Risk" and a table of one row and eleven
\* columns, the columns named after the controls in the input order and the
\* row equal to the vector passed to the model.
C4_StubHighRisk ==
    (artifactFile = "stub_high_risk" /\ trigger = "press") =>
        /\ page.success = <<"Prediction: ", "High Risk">>
        /\ Len(page.table.columns) = 11
        /\ \A i \in 1..11 : page.table.columns[i] = WidgetLabel[SpecOrder[i]]
        /\ Len(page.table.rows) = 1
        /\ page.table.rows[1] = batch[1]
        /\ page.table.rows[1] = CurrentVector

C4_Witness ==
    /\ artifactFile = "stub_high_risk"
    /\ trigger = "press"
    /\ session.month = 12
    /\ session.is_weekend = "No"

\* C5: with the artifact file missing or unreadable every execution ends at
\* the load: no handle exists, no form is rendered, no prediction is made or
\* shown, and no edit or press can occur.
C5_FatalLoad ==
    artifactFile \in {"missing", "corrupt"} =>
        /\ model = NoModel
        /\ loads = 0
        /\ ~page.form
        /\ predictCalls = 0
        /\ page.success = NoMessage
        /\ page.table = NoTable
        /\ trigger \notin {"edit", "press"}
        /\ runs > 0 => page.exception = "load"

C5_Witness ==
    /\ artifactFile = "missing"
    /\ runs >= 2
    /\ page.exception = "load"

\* C6: when the inference call of a press fails, the failure is shown,
\* predict was called once, and no success message, echo table or
\* explanation is rendered for that press.
C6_InferenceFailure ==
    (trigger = "press" /\ ~Predict(model, <<CurrentVector>>).ok) =>
        /\ page.exception = "predict"
        /\ predictCalls = 1
        /\ page.success = NoMessage
        /\ page.table = NoTable
        /\ ~page.explanation

C6_Witness ==
    /\ trigger = "press"
    /\ page.exception = "predict"
    /\ session.hour = 23

\* C7: the model file is deserialized exactly once per process, whatever the
\* number of script executions.
C7_LoadedOnce == loads <= 1

\* C8: every committed widget value lies in its declared domain, bounds
\* included, and every entry a control refused lies outside it.
C8_WidgetDomains ==
    /\ \A f \in DeclaredNumeric : InDeclaredDomain(f, session[f])
    /\ features # <<>> =>
          \A i \in 2..10 : InDeclaredDomain(SpecOrder[i], features[i])
    /\ rejected.field \in DeclaredNumeric =>
          ~InDeclaredDomain(rejected.field, rejected.value)

C8_Witness ==
    /\ session.latitude = -90
    /\ session.longitude = 180
    /\ session.hour = 0
    /\ session.day_of_week = 6
    /\ session.month = 12
    /\ session.is_weekend = "Yes"
    /\ features[11] = 1
    /\ rejected = [field |-> "signal_strength", value |-> 1]

\* C9: an execution caused by the page load or by an edit calls predict
\* zero times and renders neither prediction nor echo table; an execution
\* caused by a press calls predict exactly once.
C9_OnlyOnPress ==
    /\ trigger # "press" =>
          /\ predictCalls = 0
          /\ batch = <<>>
          /\ page.success = NoMessage
          /\ page.table = NoTable
    /\ trigger = "press" => predictCalls = 1

C9_Witness ==
    /\ trigger = "edit"
    /\ runs >= 3
    /\ session.hour = 23
    /\ predictCalls = 0

\* C10: what a press shows is determined by the control values at that press
\* alone, and an execution without a press shows no result at all.
C10_Stateless ==
    /\ (trigger = "press" /\ page.exception = "none") =>
          /\ page.success = <<"Prediction: ", Classify(artifactFile, CurrentVector)>>
          /\ page.table.rows = <<CurrentVector>>
    /\ trigger # "press" =>
          /\ page.success = NoMessage
          /\ page.table = NoTable
          /\ ~page.explanation

C10_Witness ==
    /\ trigger = "press"
    /\ artifactFile = "tree"
    /\ page.success = <<"Prediction: ", "Low Risk">>

====
